---------------------------- MODULE Spec2Model ----------------------------
(***************************************************************************)
(* Webhook verification core of the UseSend Python SDK                     *)
(* (packages/python-sdk/usesend/webhooks.py).                              *)
(*                                                                         *)
(* Representation of Python values                                         *)
(*   str      a sequence of code points (naturals); a lone surrogate       *)
(*            (U+D800..U+DFFF) is a legal element of a Python str          *)
(*   bytes    a sequence of naturals in 0..255                             *)
(*   Any      a record [tag, s, n, items] (see the constructors PyStr,     *)
(*            PyInt, PyNone, PyList, PyBytes, PyOther)                     *)
(*   raise    an outcome record [exc, code]: exc is the exception class,   *)
(*            code the WebhookVerificationError code                       *)
(*                                                                         *)
(* Library functions are modelled by what they do on the inputs of the     *)
(* model: str.encode / bytes.decode are UTF-8, int() is Python's decimal   *)
(* integer parser, json.loads is a recursive-descent JSON reader.          *)
(* hmac.new(..., sha256) is a keyed, deterministic function to 32 bytes    *)
(* that has no collisions on the inputs of the model.  Resource limits of  *)
(* the interpreter (recursion depth, memory, digit limits) are not         *)
(* modelled.                                                               *)
(***************************************************************************)
EXTENDS Integers, Sequences, FiniteSets, TLC

-----------------------------------------------------------------------------
(* Characters and string literals *)

\* printable ASCII, U+0020 .. U+007E, in code point order (U+0060 by name)
Printable ==
  << " ", "!", "\"", "#", "$", "%", "&", "'", "(", ")", "*", "+", ",", "-",
     ".", "/", "0", "1", "2", "3", "4", "5", "6", "7", "8", "9", ":", ";",
     "<", "=", ">", "?", "@", "A", "B", "C", "D", "E", "F", "G", "H", "I",
     "J", "K", "L", "M", "N", "O", "P", "Q", "R", "S", "T", "U", "V", "W",
     "X", "Y", "Z", "[", "\\", "]", "^", "_", "GRAVE", "a", "b", "c", "d", "e",
     "f", "g", "h", "i", "j", "k", "l", "m", "n", "o", "p", "q", "r", "s",
     "t", "u", "v", "w", "x", "y", "z", "{", "|", "}", "~" >>

\* code point of a printable ASCII character
Ord(c) == 31 + (CHOOSE i \in 1..Len(Printable) : Printable[i] = c)

\* a string literal, written as a sequence of characters, as a Python str
Str(chars) == [i \in 1..Len(chars) |-> Ord(chars[i])]

RECURSIVE Concat(_)
\* concatenation of a sequence of sequences
Concat(ss) == IF ss = << >> THEN << >> ELSE Head(ss) \o Concat(Tail(ss))

StartsWith(s, prefix) ==
  /\ Len(s) >= Len(prefix)
  /\ SubSeq(s, 1, Len(prefix)) = prefix

Abs(x) == IF x < 0 THEN -x ELSE x

-----------------------------------------------------------------------------
(* Outcomes: normal return or a raised exception *)

Ok(v) == [exc |-> "none", code |-> "none", val |-> v]
Raise(cls) == [exc |-> cls, code |-> "none", val |-> << >>]
\* WebhookVerificationError(code, message); the message is not modelled
WebhookVerificationError(c) ==
  [exc |-> "WebhookVerificationError", code |-> c, val |-> << >>]

-----------------------------------------------------------------------------
(* str.encode("utf-8") and bytes.decode("utf-8") *)

IsSurrogate(cp) == cp >= 55296 /\ cp <= 57343

EncodeCodePoint(cp) ==
  IF cp < 128 THEN << cp >>
  ELSE IF cp < 2048 THEN << 192 + (cp \div 64), 128 + (cp % 64) >>
  ELSE IF cp < 65536
    THEN << 224 + (cp \div 4096), 128 + ((cp \div 64) % 64), 128 + (cp % 64) >>
  ELSE << 240 + (cp \div 262144), 128 + ((cp \div 4096) % 64),
          128 + ((cp \div 64) % 64), 128 + (cp % 64) >>

\* s.encode("utf-8"): UnicodeEncodeError when s holds a surrogate
Utf8Encode(s) ==
  IF \E i \in 1..Len(s) : IsSurrogate(s[i])
    THEN Raise("UnicodeEncodeError")
    ELSE Ok(Concat([i \in 1..Len(s) |-> EncodeCodePoint(s[i])]))

IsCont(b) == b >= 128 /\ b <= 191

RECURSIVE Utf8DecodeFrom(_, _, _)
\* strict UTF-8 decoding of b from index i, acc is the text decoded so far
Utf8DecodeFrom(b, i, acc) ==
  IF i > Len(b) THEN Ok(acc)
  ELSE LET b0 == b[i]
           has(k) == i + k <= Len(b) /\ \A j \in 1..k : IsCont(b[i + j])
       IN
    IF b0 < 128 THEN Utf8DecodeFrom(b, i + 1, Append(acc, b0))
    ELSE IF b0 >= 194 /\ b0 <= 223 /\ has(1)
      THEN Utf8DecodeFrom(b, i + 2,
             Append(acc, (b0 - 192) * 64 + (b[i + 1] - 128)))
    ELSE IF b0 >= 224 /\ b0 <= 239 /\ has(2)
      THEN LET cp == (b0 - 224) * 4096 + (b[i + 1] - 128) * 64
                       + (b[i + 2] - 128)
           IN IF cp < 2048 \/ IsSurrogate(cp)
                THEN Raise("UnicodeDecodeError")
                ELSE Utf8DecodeFrom(b, i + 3, Append(acc, cp))
    ELSE IF b0 >= 240 /\ b0 <= 244 /\ has(3)
      THEN LET cp == (b0 - 240) * 262144 + (b[i + 1] - 128) * 4096
                       + (b[i + 2] - 128) * 64 + (b[i + 3] - 128)
           IN IF cp < 65536 \/ cp > 1114111
                THEN Raise("UnicodeDecodeError")
                ELSE Utf8DecodeFrom(b, i + 4, Append(acc, cp))
    ELSE Raise("UnicodeDecodeError")

Utf8Decode(b) == Utf8DecodeFrom(b, 1, << >>)

-----------------------------------------------------------------------------
(* Python values: Optional[str], Optional[int], header values, bodies *)

PyNone == [tag |-> "None", s |-> << >>, n |-> 0, items |-> << >>]
PyStr(s) == [tag |-> "str", s |-> s, n |-> 0, items |-> << >>]
PyInt(n) == [tag |-> "int", s |-> << >>, n |-> n, items |-> << >>]
PyBytes(b) == [tag |-> "bytes", s |-> b, n |-> 0, items |-> << >>]
PyList(items) == [tag |-> "list", s |-> << >>, n |-> 0, items |-> items]
\* a tuple of str, int and None items
PyTuple(items) == [tag |-> "tuple", s |-> << >>, n |-> 0, items |-> items]
\* a value of a type that is neither str nor bytes (a bytearray)
PyByteArray(b) == [tag |-> "bytearray", s |-> b, n |-> 0, items |-> << >>]

\* variant: "v is not None"
Truthy_present(v) == v.tag # "None"

\* bool(v), as applied by "not v"
Truthy(v) ==
  CASE v.tag = "None" -> FALSE
    [] v.tag = "int" -> v.n # 0
    [] v.tag \in {"list", "tuple"} -> Len(v.items) > 0
    [] OTHER -> Len(v.s) > 0

RECURSIVE NatToStr(_)
NatToStr(n) ==
  IF n < 10 THEN << 48 + n >> ELSE Append(NatToStr(n \div 10), 48 + (n % 10))

\* str(n) for an int
IntToStr(n) == IF n < 0 THEN << 45 >> \o NatToStr(-n) ELSE NatToStr(n)

\* two lowercase hex digits
ReprHex(n) ==
  LET h(d) == IF d < 10 THEN 48 + d ELSE 87 + d
  IN << h(n \div 16), h(n % 16) >>

\* repr(s) for a str: quoted with ' unless s holds ' and no ", with
\* escapes for the backslash, the quote, control and Latin-1 non-printing
\* characters and surrogates (other code points are kept as they are)
PyRepr(s) ==
  LET has(cp) == \E i \in 1..Len(s) : s[i] = cp
      quote == IF has(39) /\ ~has(34) THEN 34 ELSE 39
      esc(cp) ==
        IF cp = 92 \/ cp = quote THEN << 92, cp >>
        ELSE IF cp = 10 THEN << 92, 110 >>
        ELSE IF cp = 13 THEN << 92, 114 >>
        ELSE IF cp = 9 THEN << 92, 116 >>
        ELSE IF cp < 32 \/ (cp >= 127 /\ cp <= 160) \/ cp = 173
          THEN << 92, 120 >> \o ReprHex(cp)
        ELSE IF cp >= 55296 /\ cp <= 57343
          THEN << 92, 117 >> \o ReprHex(cp \div 256) \o ReprHex(cp % 256)
        ELSE << cp >>
      RECURSIVE body(_)
      body(i) == IF i > Len(s) THEN << >> ELSE esc(s[i]) \o body(i + 1)
  IN << quote >> \o body(1) \o << quote >>

\* repr(v) for an item of a tuple
PyReprOf(v) ==
  CASE v.tag = "str" -> PyRepr(v.s)
    [] v.tag = "int" -> IntToStr(v.n)
    [] OTHER -> << 78, 111, 110, 101 >>   \* None

\* str(t) for a tuple: "()", "(a,)", "(a, b)"
TupleToStr(items) ==
  LET RECURSIVE join(_)
      join(i) == IF i > Len(items) THEN << >>
                 ELSE (IF i > 1 THEN << 44, 32 >> ELSE << >>)
                        \o PyReprOf(items[i]) \o join(i + 1)
  IN << 40 >> \o join(1)
       \o (IF Len(items) = 1 THEN << 44 >> ELSE << >>) \o << 41 >>

\* str(v) and f"{v}" for a str, an int or a tuple
PyStrOf(v) ==
  CASE v.tag = "int" -> IntToStr(v.n)
    [] v.tag = "tuple" -> TupleToStr(v.items)
    [] OTHER -> v.s

-----------------------------------------------------------------------------
(* int(x) *)

\* str.isspace for the characters int() strips
IsSpace(cp) == (cp >= 9 /\ cp <= 13) \/ (cp >= 28 /\ cp <= 32)
                 \/ cp = 133 \/ cp = 160

\* value of a Unicode decimal digit (ASCII and Arabic-Indic), else -1
DigitVal(cp) ==
  IF cp >= 48 /\ cp <= 57 THEN cp - 48
  ELSE IF cp >= 1632 /\ cp <= 1641 THEN cp - 1632
  ELSE -1

RECURSIVE LStrip(_)
LStrip(s) == IF s # << >> /\ IsSpace(Head(s)) THEN LStrip(Tail(s)) ELSE s

RECURSIVE RStrip(_)
RStrip(s) ==
  IF s # << >> /\ IsSpace(s[Len(s)])
    THEN RStrip(SubSeq(s, 1, Len(s) - 1)) ELSE s

RECURSIVE ParseDigits(_, _, _, _)
\* digits with single underscores between them; afterDigit: s[i-1] is a digit
ParseDigits(s, i, acc, afterDigit) ==
  IF i > Len(s) THEN [ok |-> afterDigit, val |-> acc]
  ELSE IF DigitVal(s[i]) >= 0
    THEN ParseDigits(s, i + 1, acc * 10 + DigitVal(s[i]), TRUE)
  ELSE IF s[i] = 95 /\ afterDigit
    THEN ParseDigits(s, i + 1, acc, FALSE)
  ELSE [ok |-> FALSE, val |-> 0]

\* int(s) for a str s: ok = FALSE stands for ValueError
IntOfStr(s) ==
  LET t == RStrip(LStrip(s))
      neg == t # << >> /\ Head(t) = 45
      signed == t # << >> /\ (Head(t) = 45 \/ Head(t) = 43)
      d == ParseDigits(IF signed THEN Tail(t) ELSE t, 1, 0, FALSE)
  IN [ok |-> d.ok, val |-> IF ~d.ok THEN 0 ELSE IF neg THEN -d.val ELSE d.val]

\* int(v) for a str or an int
PyInt_(v) == IF v.tag = "int" THEN [ok |-> TRUE, val |-> v.n] ELSE IntOfStr(v.s)

-----------------------------------------------------------------------------
(* hmac.new(key, msg, hashlib.sha256).hexdigest() *)

DIGEST_SIZE == 32

\* the digest of key and msg (bytes): the length-prefixed key, the message
\* and a padding marker, folded into DIGEST_SIZE bytes; one-to-one as long
\* as the data fits into one block
HmacSha256(key, msg) ==
  LET data == << Len(key) >> \o key \o msg \o << 128 >>
      RECURSIVE fold(_, _)
      \* data[j], data[j + DIGEST_SIZE], ... weighted by their block
      fold(j, acc) ==
        IF j > Len(data) THEN acc
        ELSE fold(j + DIGEST_SIZE,
                  acc + data[j] * (1 + 2 * ((j - 1) \div DIGEST_SIZE)))
  IN [i \in 1..DIGEST_SIZE |-> fold(i, 0) % 256]

HexChar(n) == IF n < 10 THEN 48 + n ELSE 87 + n

\* bytes.hex(): two lowercase hex characters per byte
HexDigest(b) ==
  Concat([i \in 1..Len(b) |-> << HexChar(b[i] \div 16), HexChar(b[i] % 16) >>])

-----------------------------------------------------------------------------
(* webhooks.py: module constants *)

WEBHOOK_SIGNATURE_HEADER ==
  Str(<< "X", "-", "U", "s", "e", "S", "e", "n", "d", "-",
         "S", "i", "g", "n", "a", "t", "u", "r", "e" >>)
WEBHOOK_TIMESTAMP_HEADER ==
  Str(<< "X", "-", "U", "s", "e", "S", "e", "n", "d", "-",
         "T", "i", "m", "e", "s", "t", "a", "m", "p" >>)
SIGNATURE_PREFIX == Str(<< "v", "1", "=" >>)
DEFAULT_TOLERANCE_MS == 5 * 60 * 1000

-----------------------------------------------------------------------------
(* webhooks.py: helpers *)

\* str.lower() on ASCII
Lower(s) ==
  [i \in 1..Len(s) |-> IF s[i] >= 65 /\ s[i] <= 90 THEN s[i] + 32 ELSE s[i]]

\* the value _get_header returns for a stored value:
\*   value[0] if value else None  for a list,
\*   str(value) if value is not None else None  otherwise
HeaderValue(value) ==
  IF value.tag = "list"
    THEN IF Len(value.items) > 0 THEN value.items[1] ELSE PyNone
    ELSE IF value.tag = "None" THEN PyNone ELSE PyStr(PyStrOf(value))

\* variant: the name is looked up as it is written only
_get_header_exact(headers, name) ==
  IF headers.tag = "None" THEN PyNone
  ELSE LET es == headers.entries
           exact == {i \in 1..Len(es) : es[i].key = name}
       IN IF exact # {}
            THEN HeaderValue(es[CHOOSE i \in exact : TRUE].value)
          ELSE PyNone

\* headers: PyNone or [tag |-> "dict", entries |-> <<[key, value], ...>>],
\* entries in iteration order with pairwise distinct keys
_get_header(headers, name) ==
  IF headers.tag = "None" THEN PyNone
  ELSE LET es == headers.entries
           exact == {i \in 1..Len(es) : es[i].key = name}
           ci == {i \in 1..Len(es) : Lower(es[i].key) = Lower(name)}
       IN IF exact # {}
            THEN HeaderValue(es[CHOOSE i \in exact : TRUE].value)
          ELSE IF ci # {}
            THEN HeaderValue(es[CHOOSE i \in ci : \A j \in ci : i <= j].value)
          ELSE PyNone

\* variant: bytes are decoded with errors="replace"
_to_string_replace(body) ==
  IF body.tag = "str" THEN Ok(body.s)
  ELSE IF body.tag = "bytes"
    THEN LET d == Utf8Decode(body.s)
         IN IF d.exc = "none" THEN d ELSE Ok(<< 65533 >>)
  ELSE WebhookVerificationError("INVALID_BODY")

_to_string(body) ==
  IF body.tag = "str" THEN Ok(body.s)
  ELSE IF body.tag = "bytes"
    THEN LET d == Utf8Decode(body.s)
         IN IF d.exc = "none" THEN d
            ELSE WebhookVerificationError("INVALID_BODY")
  ELSE WebhookVerificationError("INVALID_BODY")

\* variant: the timestamp is written as the decimal form of its value and
\* a trailing space of the body is dropped
SignedMessage_normalised(timestamp, body) ==
  IntToStr(PyInt_(timestamp).val) \o << 46 >>
    \o (IF Len(body) > 0 /\ body[Len(body)] = 32
          THEN SubSeq(body, 1, Len(body) - 1) ELSE body)

\* message = f"{timestamp}.{body}"
SignedMessage(timestamp, body) == PyStrOf(timestamp) \o << 46 >> \o body

\* variant: the timestamp is signed as the decimal form of its value
_compute_signature_canonical(secret, timestamp, body) ==
  LET key == Utf8Encode(secret)
      msg == Utf8Encode(IntToStr(PyInt_(timestamp).val) \o << 46 >> \o body)
  IN IF key.exc # "none" THEN key
     ELSE IF msg.exc # "none" THEN msg
     ELSE Ok(SIGNATURE_PREFIX \o HexDigest(HmacSha256(key.val, msg.val)))

_compute_signature(secret, timestamp, body) ==
  LET key == Utf8Encode(secret)
      msg == Utf8Encode(SignedMessage(timestamp, body))
  IN IF key.exc # "none" THEN key
     ELSE IF msg.exc # "none" THEN msg
     ELSE Ok(SIGNATURE_PREFIX \o HexDigest(HmacSha256(key.val, msg.val)))

\* variant: only the lengths are compared
_safe_compare_lengths(a, b) ==
  LET ea == Utf8Encode(a)
      eb == Utf8Encode(b)
  IN IF ea.exc # "none" THEN ea
     ELSE IF eb.exc # "none" THEN eb
     ELSE Ok(Len(ea.val) = Len(eb.val))

\* hmac.compare_digest(a.encode("utf-8"), b.encode("utf-8"))
_safe_compare(a, b) ==
  LET ea == Utf8Encode(a)
      eb == Utf8Encode(b)
  IN IF ea.exc # "none" THEN ea
     ELSE IF eb.exc # "none" THEN eb
     ELSE Ok(ea.val = eb.val)

-----------------------------------------------------------------------------
(* Webhooks._verify_internal *)

\* variant: "secret or self._secret", which replaces "" as well
EffectiveSecret_or(self_secret, secret) ==
  IF secret.tag # "None" /\ secret.s # << >> THEN secret.s ELSE self_secret

\* secret if secret is not None else self._secret
EffectiveSecret(self_secret, secret) ==
  IF secret.tag # "None" THEN secret.s ELSE self_secret

\* variant: "tolerance or DEFAULT_TOLERANCE_MS", which replaces 0 as well
EffectiveTolerance_or(tolerance) ==
  IF tolerance.tag # "None" /\ tolerance.n # 0
    THEN tolerance.n ELSE DEFAULT_TOLERANCE_MS

\* tolerance if tolerance is not None else DEFAULT_TOLERANCE_MS
EffectiveTolerance(tolerance) ==
  IF tolerance.tag # "None" THEN tolerance.n ELSE DEFAULT_TOLERANCE_MS

\* variant: the window is applied whatever the sign of the tolerance
TimestampOutOfRange_unguarded(tolerance_ms, now, timestamp_num) ==
  Abs(now - timestamp_num) > tolerance_ms

\* tolerance_ms >= 0 and abs(now - timestamp_num) > tolerance_ms
TimestampOutOfRange(tolerance_ms, now, timestamp_num) ==
  tolerance_ms >= 0 /\ Abs(now - timestamp_num) > tolerance_ms

\* variant: a signature without the prefix is passed on to the comparison
HasSignaturePrefix_any(signature) == TRUE

\* signature.startswith(SIGNATURE_PREFIX)
HasSignaturePrefix(signature) == StartsWith(signature, SIGNATURE_PREFIX)

\* the steps after the timestamp has been parsed
VerifySignature(webhook_secret, body, signature, timestamp) ==
  LET body_string == _to_string(body)
  IN IF body_string.exc # "none" THEN body_string
     ELSE LET expected == _compute_signature(webhook_secret, timestamp,
                                               body_string.val)
          IN IF expected.exc # "none" THEN expected
             ELSE LET eq == _safe_compare(expected.val, signature.s)
                  IN IF eq.exc # "none" THEN eq
                     ELSE IF ~eq.val
                       THEN WebhookVerificationError("SIGNATURE_MISMATCH")
                     ELSE Ok(<< >>)

\* variant: the timestamp header is looked at before the signature header
_verify_internal_timestamp_first(self_secret, body, headers, secret, tolerance, now) ==
  LET webhook_secret == EffectiveSecret(self_secret, secret)
      signature == _get_header(headers, WEBHOOK_SIGNATURE_HEADER)
      timestamp == _get_header(headers, WEBHOOK_TIMESTAMP_HEADER)
  IN IF ~Truthy(timestamp)
       THEN WebhookVerificationError("MISSING_TIMESTAMP")
     ELSE IF ~Truthy(signature)
       THEN WebhookVerificationError("MISSING_SIGNATURE")
     ELSE IF signature.tag # "str"
       THEN Raise("AttributeError")
     ELSE LET timestamp_num == PyInt_(timestamp)
          IN IF ~timestamp_num.ok
               THEN WebhookVerificationError("INVALID_TIMESTAMP")
             ELSE IF ~HasSignaturePrefix(signature.s)
               THEN WebhookVerificationError("INVALID_SIGNATURE_FORMAT")
             ELSE IF TimestampOutOfRange(EffectiveTolerance(tolerance), now,
                                         timestamp_num.val)
               THEN WebhookVerificationError("TIMESTAMP_OUT_OF_RANGE")
             ELSE VerifySignature(webhook_secret, body, signature, timestamp)

\* now: the value of int(time.time() * 1000) read by this call
_verify_internal(self_secret, body, headers, secret, tolerance, now) ==
  LET webhook_secret == EffectiveSecret(self_secret, secret)
      signature == _get_header(headers, WEBHOOK_SIGNATURE_HEADER)
      timestamp == _get_header(headers, WEBHOOK_TIMESTAMP_HEADER)
  IN IF ~Truthy(signature)
       THEN WebhookVerificationError("MISSING_SIGNATURE")
     ELSE IF ~Truthy(timestamp)
       THEN WebhookVerificationError("MISSING_TIMESTAMP")
     ELSE IF signature.tag # "str"
       THEN Raise("AttributeError")   \* signature.startswith on a non-str
     ELSE IF ~HasSignaturePrefix(signature.s)
       THEN WebhookVerificationError("INVALID_SIGNATURE_FORMAT")
     ELSE LET timestamp_num == PyInt_(timestamp)
          IN IF ~timestamp_num.ok
               THEN WebhookVerificationError("INVALID_TIMESTAMP")
             ELSE IF TimestampOutOfRange(EffectiveTolerance(tolerance), now,
                                         timestamp_num.val)
               THEN WebhookVerificationError("TIMESTAMP_OUT_OF_RANGE")
             ELSE VerifySignature(webhook_secret, body, signature, timestamp)

-----------------------------------------------------------------------------
(* Webhooks.verify *)

verify(self_secret, body, headers, secret, tolerance, now) ==
  LET r == _verify_internal(self_secret, body, headers, secret, tolerance, now)
  IN IF r.exc = "none" THEN Ok(TRUE)
     ELSE IF r.exc = "WebhookVerificationError" THEN Ok(FALSE)
     ELSE r

-----------------------------------------------------------------------------
(* json.loads(s) for a str s                                               *)
(* A JSON value is a pair <<type, payload>>: <<"null", 0>>,                *)
(* <<"bool", b>>, <<"int", n>>, <<"float", lexeme>>, <<"str", text>>,      *)
(* <<"list", <<values>>>> and <<"dict", [key text |-> value]>>.            *)

JSON_NULL == Str(<< "n", "u", "l", "l" >>)
JSON_TRUE == Str(<< "t", "r", "u", "e" >>)
JSON_FALSE == Str(<< "f", "a", "l", "s", "e" >>)
JSON_NAN == Str(<< "N", "a", "N" >>)
JSON_INFINITY == Str(<< "I", "n", "f", "i", "n", "i", "t", "y" >>)
JSON_NEG_INFINITY == Str(<< "-", "I", "n", "f", "i", "n", "i", "t", "y" >>)

JsonFail == [ok |-> FALSE, val |-> << >>, pos |-> 0]
JsonOk(v, p) == [ok |-> TRUE, val |-> v, pos |-> p]

IsJsonWs(cp) == cp \in {32, 9, 10, 13}

RECURSIVE SkipWs(_, _)
SkipWs(s, i) == IF i <= Len(s) /\ IsJsonWs(s[i]) THEN SkipWs(s, i + 1) ELSE i

HasAt(s, i, lit) ==
  /\ i + Len(lit) - 1 <= Len(s)
  /\ SubSeq(s, i, i + Len(lit) - 1) = lit

IsDigit(s, i) == i <= Len(s) /\ s[i] >= 48 /\ s[i] <= 57

RECURSIVE ScanDigits(_, _)
\* index after the run of ASCII digits that starts at i
ScanDigits(s, i) == IF IsDigit(s, i) THEN ScanDigits(s, i + 1) ELSE i

HexVal(cp) ==
  IF cp >= 48 /\ cp <= 57 THEN cp - 48
  ELSE IF cp >= 97 /\ cp <= 102 THEN cp - 87
  ELSE IF cp >= 65 /\ cp <= 70 THEN cp - 55
  ELSE -1

\* (-?(?:0|[1-9]\d*))(\.\d+)?([eE][-+]?\d+)?  starting at i
ParseNumber(s, i) ==
  LET neg == i <= Len(s) /\ s[i] = 45
      j == IF neg THEN i + 1 ELSE i
      intEnd == IF IsDigit(s, j) /\ s[j] = 48 THEN j + 1 ELSE ScanDigits(s, j)
      fracEnd == IF intEnd <= Len(s) /\ s[intEnd] = 46 /\ IsDigit(s, intEnd + 1)
                   THEN ScanDigits(s, intEnd + 1) ELSE intEnd
      expDigits == IF fracEnd <= Len(s) /\ s[fracEnd] \in {101, 69}
                     THEN IF fracEnd + 1 <= Len(s) /\ s[fracEnd + 1] \in {43, 45}
                            THEN fracEnd + 2 ELSE fracEnd + 1
                     ELSE 0
      end == IF expDigits > 0 /\ IsDigit(s, expDigits)
               THEN ScanDigits(s, expDigits) ELSE fracEnd
      mag == ParseDigits(SubSeq(s, j, intEnd - 1), 1, 0, FALSE).val
  IN IF intEnd = j THEN JsonFail
     ELSE IF end = intEnd THEN JsonOk(<< "int", IF neg THEN -mag ELSE mag >>, end)
     ELSE JsonOk(<< "float", SubSeq(s, i, end - 1) >>, end)

RECURSIVE ParseString(_, _, _)
\* the characters of a string whose opening quote is at i - 1
ParseString(s, i, acc) ==
  IF i > Len(s) THEN JsonFail
  ELSE IF s[i] = 34 THEN JsonOk(acc, i + 1)
  ELSE IF s[i] < 32 THEN JsonFail
  ELSE IF s[i] # 92 THEN ParseString(s, i + 1, Append(acc, s[i]))
  ELSE IF i + 1 > Len(s) THEN JsonFail
  ELSE LET e == s[i + 1]
       IN IF e \in {34, 92, 47} THEN ParseString(s, i + 2, Append(acc, e))
          ELSE IF e = 98 THEN ParseString(s, i + 2, Append(acc, 8))
          ELSE IF e = 102 THEN ParseString(s, i + 2, Append(acc, 12))
          ELSE IF e = 110 THEN ParseString(s, i + 2, Append(acc, 10))
          ELSE IF e = 114 THEN ParseString(s, i + 2, Append(acc, 13))
          ELSE IF e = 116 THEN ParseString(s, i + 2, Append(acc, 9))
          ELSE IF e = 117 /\ i + 5 <= Len(s)
                  /\ \A k \in 2..5 : HexVal(s[i + k]) >= 0
            THEN ParseString(s, i + 6,
                   Append(acc, HexVal(s[i + 2]) * 4096 + HexVal(s[i + 3]) * 256
                                 + HexVal(s[i + 4]) * 16 + HexVal(s[i + 5])))
          ELSE JsonFail

RECURSIVE ParseValue(_, _)
RECURSIVE ParseMembers(_, _, _)
RECURSIVE ParseElements(_, _, _)

\* the value that starts at i
ParseValue(s, i) ==
  IF i > Len(s) THEN JsonFail
  ELSE IF s[i] = 34
    THEN LET r == ParseString(s, i + 1, << >>)
         IN IF r.ok THEN JsonOk(<< "str", r.val >>, r.pos) ELSE JsonFail
  ELSE IF s[i] = 123
    THEN LET j == SkipWs(s, i + 1)
         IN IF j <= Len(s) /\ s[j] = 125
              THEN JsonOk(<< "dict", << >> >>, j + 1)
              ELSE ParseMembers(s, j, << >>)
  ELSE IF s[i] = 91
    THEN LET j == SkipWs(s, i + 1)
         IN IF j <= Len(s) /\ s[j] = 93
              THEN JsonOk(<< "list", << >> >>, j + 1)
              ELSE ParseElements(s, j, << >>)
  ELSE IF HasAt(s, i, JSON_NULL)
    THEN JsonOk(<< "null", 0 >>, i + 4)
  ELSE IF HasAt(s, i, JSON_TRUE)
    THEN JsonOk(<< "bool", TRUE >>, i + 4)
  ELSE IF HasAt(s, i, JSON_FALSE)
    THEN JsonOk(<< "bool", FALSE >>, i + 5)
  ELSE IF HasAt(s, i, JSON_NAN)
    THEN JsonOk(<< "float", SubSeq(s, i, i + 2) >>, i + 3)
  ELSE IF HasAt(s, i, JSON_INFINITY)
    THEN JsonOk(<< "float", SubSeq(s, i, i + 7) >>, i + 8)
  ELSE IF HasAt(s, i, JSON_NEG_INFINITY)
    THEN JsonOk(<< "float", SubSeq(s, i, i + 8) >>, i + 9)
  ELSE ParseNumber(s, i)

\* "key": value pairs up to the closing brace; acc holds the pairs read so
\* far, a later pair replacing an earlier pair with the same key
ParseMembers(s, i, acc) ==
  IF i > Len(s) \/ s[i] # 34 THEN JsonFail
  ELSE LET k == ParseString(s, i + 1, << >>)
           c == SkipWs(s, k.pos)
           v == ParseValue(s, SkipWs(s, c + 1))
           m == SkipWs(s, v.pos)
           acc2 == (k.val :> v.val) @@ acc
       IN IF ~k.ok \/ c > Len(s) \/ s[c] # 58 THEN JsonFail
          ELSE IF ~v.ok \/ m > Len(s) THEN JsonFail
          ELSE IF s[m] = 125 THEN JsonOk(<< "dict", acc2 >>, m + 1)
          ELSE IF s[m] = 44 THEN ParseMembers(s, SkipWs(s, m + 1), acc2)
          ELSE JsonFail

\* values up to the closing bracket
ParseElements(s, i, acc) ==
  LET v == ParseValue(s, i)
      m == SkipWs(s, v.pos)
      acc2 == Append(acc, v.val)
  IN IF ~v.ok \/ m > Len(s) THEN JsonFail
     ELSE IF s[m] = 93 THEN JsonOk(<< "list", acc2 >>, m + 1)
     ELSE IF s[m] = 44 THEN ParseElements(s, SkipWs(s, m + 1), acc2)
     ELSE JsonFail

\* json.loads(s): ok = FALSE stands for json.JSONDecodeError
JsonLoads(s) ==
  LET r == ParseValue(s, SkipWs(s, 1))
  IN IF r.ok /\ SkipWs(s, r.pos) = Len(s) + 1 THEN r ELSE JsonFail

-----------------------------------------------------------------------------
(* Webhooks.construct_event *)

\* variant: the decoder's error is not converted
construct_event_uncaught(self_secret, body, headers, secret, tolerance, now) ==
  LET r == _verify_internal(self_secret, body, headers, secret, tolerance, now)
  IN IF r.exc # "none" THEN r
     ELSE LET body_string == _to_string(body)
          IN IF body_string.exc # "none" THEN body_string
             ELSE LET j == JsonLoads(body_string.val)
                  IN IF j.ok THEN Ok(j.val) ELSE Raise("JSONDecodeError")

\* variant: an event without a known type is rejected
construct_event_typed(self_secret, body, headers, secret, tolerance, now) ==
  LET r == _verify_internal(self_secret, body, headers, secret, tolerance, now)
      type == Str(<< "t", "y", "p", "e" >>)
      known == Str(<< "e", "m", "a", "i", "l", ".", "b", "o", "u", "n", "c",
                      "e", "d" >>)
  IN IF r.exc # "none" THEN r
     ELSE LET body_string == _to_string(body)
          IN IF body_string.exc # "none" THEN body_string
             ELSE LET j == JsonLoads(body_string.val)
                  IN IF j.ok /\ j.val[1] = "dict" /\ type \in DOMAIN j.val[2]
                          /\ j.val[2][type] = << "str", known >>
                       THEN Ok(j.val)
                       ELSE WebhookVerificationError("INVALID_JSON")

\* variant: the body is parsed before the request is verified
construct_event_parse_first(self_secret, body, headers, secret, tolerance, now) ==
  LET body_string == _to_string(body)
      j == JsonLoads(body_string.val)
  IN IF body_string.exc = "none" /\ ~j.ok
       THEN WebhookVerificationError("INVALID_JSON")
     ELSE LET r == _verify_internal(self_secret, body, headers, secret,
                                    tolerance, now)
          IN IF r.exc # "none" THEN r
             ELSE IF body_string.exc # "none" THEN body_string
             ELSE Ok(j.val)

construct_event(self_secret, body, headers, secret, tolerance, now) ==
  LET r == _verify_internal(self_secret, body, headers, secret, tolerance, now)
  IN IF r.exc # "none" THEN r
     ELSE LET body_string == _to_string(body)
          IN IF body_string.exc # "none" THEN body_string
             ELSE LET j == JsonLoads(body_string.val)
                  IN IF j.ok THEN Ok(j.val)
                     ELSE WebhookVerificationError("INVALID_JSON")

-----------------------------------------------------------------------------
(* json.dumps(v), as the tests use it to build a body *)

HexDigit4(cp) ==
  << HexChar(cp \div 4096), HexChar((cp \div 256) % 16),
     HexChar((cp \div 16) % 16), HexChar(cp % 16) >>

\* ensure_ascii: everything outside U+0020..U+007E is escaped
EscapeChar(cp) ==
  IF cp = 34 \/ cp = 92 THEN << 92, cp >>
  ELSE IF cp = 10 THEN << 92, 110 >>
  ELSE IF cp = 13 THEN << 92, 114 >>
  ELSE IF cp = 9 THEN << 92, 116 >>
  ELSE IF cp = 8 THEN << 92, 98 >>
  ELSE IF cp = 12 THEN << 92, 102 >>
  ELSE IF cp < 32 \/ cp > 126 THEN << 92, 117 >> \o HexDigit4(cp)
  ELSE << cp >>

DumpsStr(t) ==
  << 34 >> \o Concat([i \in 1..Len(t) |-> EscapeChar(t[i])]) \o << 34 >>

RECURSIVE Join(_)
\* ", ".join(parts)
Join(parts) ==
  IF parts = << >> THEN << >>
  ELSE IF Len(parts) = 1 THEN parts[1]
  ELSE parts[1] \o << 44, 32 >> \o Join(Tail(parts))

RECURSIVE KeysOf(_)
\* the keys of a dict in an iteration order
KeysOf(ks) ==
  IF ks = {} THEN << >>
  ELSE LET k == CHOOSE x \in ks : TRUE IN << k >> \o KeysOf(ks \ {k})

RECURSIVE Dumps(_)
Dumps(v) ==
  CASE v[1] = "null" -> JSON_NULL
    [] v[1] = "bool" -> IF v[2] THEN JSON_TRUE ELSE JSON_FALSE
    [] v[1] = "int" -> IntToStr(v[2])
    [] v[1] = "str" -> DumpsStr(v[2])
    [] v[1] = "list" ->
         << 91 >> \o Join([i \in 1..Len(v[2]) |-> Dumps(v[2][i])]) \o << 93 >>
    [] v[1] = "dict" ->
         LET ks == KeysOf(DOMAIN v[2])
         IN << 123 >>
              \o Join([i \in 1..Len(ks) |->
                         DumpsStr(ks[i]) \o << 58, 32 >> \o Dumps(v[2][ks[i]])])
              \o << 125 >>

-----------------------------------------------------------------------------
(* tests/test_webhooks.py: the sender's side *)

\* the "v1=" of the tests' _sign
V1 == Str(<< "v", "1", "=" >>)

\* _sign(secret, timestamp, body) of the tests, for str arguments
_sign(secret, timestamp, body) ==
  LET key == Utf8Encode(secret)
      msg == Utf8Encode(timestamp \o << 46 >> \o body)
  IN IF key.exc # "none" THEN key
     ELSE IF msg.exc # "none" THEN msg
     ELSE Ok(V1 \o HexDigest(HmacSha256(key.val, msg.val)))

-----------------------------------------------------------------------------
(* Bounds and inputs *)

\* largest non-negative tolerance override a caller passes
MaxTolerance == 1

\* the secret the instance is constructed with, and another one
WHSEC_TEST == Str(<< "w", "h", "s", "e", "c", "_", "t", "e", "s", "t" >>)
OTHER_SECRET == Str(<< "k", "2" >>)

\* the time a delivery is stamped with, in milliseconds
DeliveryTime == DEFAULT_TOLERANCE_MS + MaxTolerance + 2

\* clock readings: the delivery time, the edges of every tolerance window
\* of the model around it, and one millisecond beyond each edge
ClockReadings ==
  {DeliveryTime + d : d \in -(MaxTolerance + 1)..(MaxTolerance + 1)}
    \cup {DeliveryTime - DEFAULT_TOLERANCE_MS - 1,
          DeliveryTime - DEFAULT_TOLERANCE_MS,
          DeliveryTime + DEFAULT_TOLERANCE_MS,
          DeliveryTime + DEFAULT_TOLERANCE_MS + 1}

\* tolerance arguments: omitted, disabled (negative), zero and positive
Tolerances == {PyNone} \cup {PyInt(t) : t \in -2..MaxTolerance}

\* secret arguments: omitted, the empty string, another secret
SecretOverrides == {PyNone, PyStr(<< >>), PyStr(OTHER_SECRET)}

\* text of the timestamp header; "none" stands for a request without it
TimestampTexts ==
  { << "str", NatToStr(DeliveryTime) >>,             \* decimal
    << "str", << 48 >> \o NatToStr(DeliveryTime) >>, \* with a leading zero
    << "str", Str(<< "a", "b", "c" >>) >>,          \* not a number
    << "str", << >> >>,                              \* empty
    << "none", << >> >> }

\* JSON values
JStr(t) == << "str", t >>
JDict(f) == << "dict", f >>

\* event payloads: a bounce as in the tests, an event type the SDK does
\* not know, and an object without a type
TYPE == Str(<< "t", "y", "p", "e" >>)
DATA == Str(<< "d", "a", "t", "a" >>)
BOUNCE == Str(<< "b", "o", "u", "n", "c", "e" >>)
EMAIL_BOUNCED ==
  Str(<< "e", "m", "a", "i", "l", ".", "b", "o", "u", "n", "c", "e", "d" >>)
PERMANENT == Str(<< "P", "e", "r", "m", "a", "n", "e", "n", "t" >>)

BouncedEvent ==
  JDict((TYPE :> JStr(EMAIL_BOUNCED))
        @@ (DATA :> JDict(BOUNCE :> JDict(TYPE :> JStr(PERMANENT)))))
UnknownEvent == JDict(TYPE :> JStr(Str(<< "x", ".", "y" >>)))
UntypedEvent == JDict(<< >>)
Payloads == {BouncedEvent, UnknownEvent, UntypedEvent}

\* body = json.dumps(payload)
PayloadText == [p \in Payloads |-> Dumps(p)]

\* well-formed JSON texts that are not objects
NonObjectTexts ==
  { Str(<< "[", "]" >>),
    Str(<< "\"", "a", "\"" >>),
    Str(<< "1" >>),
    Str(<< "t", "r", "u", "e" >>),
    Str(<< "n", "u", "l", "l" >>) }

\* texts that are not JSON
MalformedTexts ==
  { << >>,
    Str(<< "{", "\"", "a", "\"", ":" >>) }

Bodies ==
  {PyStr(PayloadText[p]) : p \in Payloads}
    \cup {PyStr(t) : t \in NonObjectTexts \cup MalformedTexts}
    \cup { PyStr(<< 56448 >>),    \* a lone surrogate, U+DC80
           PyBytes(PayloadText[UntypedEvent]),
           PyBytes(<< 255 >>),
           PyByteArray(PayloadText[UntypedEvent]) }

\* how the signature header relates to the signature of the delivery
SignatureKinds ==
  { "signed",      \* the signature itself
    "raw-hex",     \* without the v1= prefix
    "flip-last",   \* last hex character replaced by another one
    "truncated",   \* without its last character
    "surrogate",   \* last character replaced by a lone surrogate
    "list-of-int", \* a list holding an int, not a str
    "empty",       \* the empty string
    "none" }       \* a request without the header

\* another hex character; the case of a letter when it has one
FlipChar(cp) == IF cp >= 97 THEN cp - 32 ELSE IF cp = 57 THEN 48 ELSE cp + 1

ReplaceAt(s, i, cp) == [j \in 1..Len(s) |-> IF j = i THEN cp ELSE s[j]]

\* the key a delivery is signed with: that of the receiver, or another one
SigningKeys == {"same", "other"}

\* the signature of the tests for a body that cannot be signed
DEADBEEF == Str(<< "v", "1", "=", "d", "e", "a", "d", "b", "e", "e", "f" >>)

\* the signature a sender computes; a fixed one when it cannot sign
SenderSignature(key, timestamp, body) ==
  LET text == _to_string(body)
  IN IF text.exc # "none" THEN DEADBEEF
     ELSE LET sig == _sign(key, timestamp, text.val)
          IN IF sig.exc = "none" THEN sig.val ELSE DEADBEEF

SignatureValue(kind, signed) ==
  CASE kind = "signed" -> PyStr(signed)
    [] kind = "raw-hex" -> PyStr(SubSeq(signed, 4, Len(signed)))
    [] kind = "flip-last" ->
         PyStr(ReplaceAt(signed, Len(signed), FlipChar(signed[Len(signed)])))
    [] kind = "truncated" -> PyStr(SubSeq(signed, 1, Len(signed) - 1))
    [] kind = "surrogate" ->
         PyStr(SubSeq(signed, 1, Len(signed) - 1) \o << 56448 >>)
    [] kind = "list-of-int" -> PyList(<< PyInt(123) >>)
    [] kind = "empty" -> PyStr(<< >>)

\* the header mapping of a request
Headers(sigKind, signed, ts) ==
  [tag |-> "dict",
   entries |->
     (IF sigKind = "none" THEN << >>
      ELSE << [key |-> WEBHOOK_SIGNATURE_HEADER,
               value |-> SignatureValue(sigKind, signed)] >>)
     \o (IF ts[1] = "none" THEN << >>
         ELSE << [key |-> WEBHOOK_TIMESTAMP_HEADER, value |-> PyStr(ts[2])] >>)]

\* the arguments of a call
Request(self, body, sigKind, signKey, ts, secret, tolerance) ==
  LET receiver == IF secret.tag # "None" THEN secret.s ELSE self
      key == IF signKey = "same" THEN receiver
             ELSE IF receiver = OTHER_SECRET THEN WHSEC_TEST ELSE OTHER_SECRET
  IN [body |-> body,
      headers |-> Headers(sigKind, SenderSignature(key, ts[2], body), ts),
      secret |-> secret,
      tolerance |-> tolerance]

\* a delivery under another key is sent with its signature as computed
Deliveries ==
  {d \in SignatureKinds \X SigningKeys : d[2] = "same" \/ d[1] = "signed"}

\* requests whose headers are stored under the names of the module, as
\* strings
StringRequestsWith(self, secrets, tolerances) ==
  {Request(self, body, d[1], d[2], ts, secret, tolerance) :
     body \in Bodies, d \in Deliveries, ts \in TimestampTexts,
     secret \in secrets, tolerance \in tolerances}

StringRequests(self) ==
  StringRequestsWith(self, SecretOverrides, Tolerances)

\* str.upper() on ASCII
Upper(s) ==
  [i \in 1..Len(s) |-> IF s[i] >= 97 /\ s[i] <= 122 THEN s[i] - 32 ELSE s[i]]

\* the case a framework stores a header name in
KeyCases == {"canonical", "lower", "upper"}

HeaderKey(name, case) ==
  CASE case = "lower" -> Lower(name)
    [] case = "upper" -> Upper(name)
    [] OTHER -> name

\* the shape a framework stores a header value in
ValueShapes ==
  {"str", "list", "empty-list", "tuple", "empty-tuple", "None"}

\* a second value of a repeated header
REPEATED == Str(<< "v", "1", "=", "0" >>)

Shaped(shape, text) ==
  CASE shape = "list" -> PyList(<< PyStr(text), PyStr(REPEATED) >>)
    [] shape = "empty-list" -> PyList(<< >>)
    [] shape = "tuple" -> PyTuple(<< PyStr(text) >>)
    [] shape = "empty-tuple" -> PyTuple(<< >>)
    [] shape = "None" -> PyNone
    [] OTHER -> PyStr(text)

\* shapes of the signature and of the timestamp value
ShapePairs ==
  {p \in ValueShapes \X ValueShapes :
     p[1] = "str" \/ p[2] = "str" \/ p[1] = p[2]}

\* another text of the same integer: with or without a leading zero
AltTimestamp(ts) == IF ts[1] = 48 THEN Tail(ts) ELSE << 48 >> \o ts

\* the same text up to whitespace: with or without a trailing space
AltBody(text) ==
  IF text[Len(text)] = 32 THEN SubSeq(text, 1, Len(text) - 1)
  ELSE text \o << 32 >>

\* what the sender signed: the timestamp and body it sends, or a
\* timestamp or body that differs from them in form only
SignedOver == {"sent", "other-timestamp", "other-body"}

VariantBodies ==
  {PayloadText[UntypedEvent], PayloadText[UntypedEvent] \o << 32 >>}

VariantTimestamps ==
  {NatToStr(DeliveryTime), << 48 >> \o NatToStr(DeliveryTime)}

VariantRequest(self, text, ts, over, case, shapes) ==
  LET signed ==
        _sign(self,
              IF over = "other-timestamp" THEN AltTimestamp(ts) ELSE ts,
              IF over = "other-body" THEN AltBody(text) ELSE text).val
  IN [body |-> PyStr(text),
      headers |->
        [tag |-> "dict",
         entries |->
           << [key |-> HeaderKey(WEBHOOK_SIGNATURE_HEADER, case),
               value |-> Shaped(shapes[1], signed)],
              [key |-> HeaderKey(WEBHOOK_TIMESTAMP_HEADER, case),
               value |-> Shaped(shapes[2], ts)] >>],
      secret |-> PyNone,
      tolerance |-> PyNone]

\* requests whose headers are stored under other cases and shapes
VariantRequests(self) ==
  {VariantRequest(self, text, ts, over, case, shapes) :
     text \in VariantBodies, ts \in VariantTimestamps, over \in SignedOver,
     case \in KeyCases, shapes \in ShapePairs}

Requests(self) == StringRequests(self) \cup VariantRequests(self)

\* the requests of a caller that passes neither a secret nor a tolerance
DefaultRequests(self) ==
  StringRequestsWith(self, {PyNone}, {PyNone}) \cup VariantRequests(self)

-----------------------------------------------------------------------------
(* The state machine: one Webhooks instance and its caller *)

VARIABLES
  self_secret,  \* Webhooks._secret
  clock,        \* the wall clock, int(time.time() * 1000)
  pc,           \* "idle", or "returned" after a call
  call,         \* the call that returned: op, arguments and clock reading
  result,       \* its outcome
  threads,      \* concurrent callers: position, arguments and outcome
  locals,       \* the local names of the call each of them is in
  replayed      \* a delivery that is presented again: the caller's body
                \* and header mapping, and what its calls have observed

vars == << self_secret, clock, pc, call, result, threads, locals, replayed >>

\* number of threads that call into the instance
NumThreads == 2
Threads == 1..NumThreads

\* a thread that is not in a call
IdleThread ==
  [pc |-> "idle", op |-> "none", body |-> PyNone, headers |-> PyNone,
   secret |-> PyNone, tolerance |-> PyNone, now |-> 0,
   result |-> [exc |-> "no call", code |-> "none", val |-> << >>]]

\* the local names of _verify_internal and construct_event, unassigned
NoLocals ==
  [webhook_secret |-> << >>, signature |-> PyNone, timestamp |-> PyNone,
   timestamp_num |-> 0, now |-> 0, body_string |-> << >>,
   expected |-> << >>]

NoCall == [op |-> "none", body |-> PyNone, headers |-> PyNone,
           secret |-> PyNone, tolerance |-> PyNone, now |-> 0]
NoResult == [exc |-> "no call", code |-> "none", val |-> << >>]

\* no delivery has been presented yet
NoDelivery ==
  [body |-> PyNone, headers |-> PyNone, tolerance |-> PyNone, first |-> 0,
   latest |-> 0, accepted_at |-> 0, overridden |-> FALSE]

\* Webhooks(secret): __init__ stores the secret
Init ==
  /\ self_secret = WHSEC_TEST
  /\ clock = DeliveryTime - DEFAULT_TOLERANCE_MS - 1
  /\ pc = "idle"
  /\ call = NoCall
  /\ result = NoResult
  /\ threads = [t \in Threads |-> IdleThread]
  /\ locals = [t \in Threads |-> NoLocals]
  /\ replayed = NoDelivery

\* time passes
Tick ==
  /\ pc = "idle"
  /\ \E t \in ClockReadings : t > clock /\ clock' = t
  /\ UNCHANGED << self_secret, pc, call, result, threads, locals, replayed >>

CallVerify(rs) ==
  /\ pc = "idle"
  /\ \E r \in rs :
       /\ call' = [op |-> "verify", body |-> r.body, headers |-> r.headers,
                   secret |-> r.secret, tolerance |-> r.tolerance,
                   now |-> clock]
       /\ result' = verify(self_secret, r.body, r.headers, r.secret,
                           r.tolerance, clock)
  /\ pc' = "returned"
  /\ UNCHANGED << self_secret, clock, threads, locals, replayed >>

CallConstructEvent(rs) ==
  /\ pc = "idle"
  /\ \E r \in rs :
       /\ call' = [op |-> "construct_event", body |-> r.body,
                   headers |-> r.headers, secret |-> r.secret,
                   tolerance |-> r.tolerance, now |-> clock]
       /\ result' = construct_event(self_secret, r.body, r.headers, r.secret,
                                    r.tolerance, clock)
  /\ pc' = "returned"
  /\ UNCHANGED << self_secret, clock, threads, locals, replayed >>

\* the caller has handled the outcome and is ready for the next request
Done ==
  /\ pc = "returned"
  /\ pc' = "idle"
  /\ call' = NoCall
  /\ result' = NoResult
  /\ UNCHANGED << self_secret, clock, threads, locals, replayed >>

Next ==
  \/ Tick
  \/ CallVerify(Requests(self_secret))
  \/ CallConstructEvent(Requests(self_secret))
  \/ Done

Spec == Init /\ [][Next]_vars

\* the instance under a caller that passes neither a secret nor a
\* tolerance
NextDefaults ==
  \/ Tick
  \/ CallVerify(DefaultRequests(self_secret))
  \/ CallConstructEvent(DefaultRequests(self_secret))
  \/ Done

SpecDefaults == Init /\ [][NextDefaults]_vars

-----------------------------------------------------------------------------
(* Concurrent callers: the calls of several threads on one instance,       *)
(* interleaved at the statements of _verify_internal and construct_event   *)

\* variant: the local names are attributes shared by all calls
Frame_shared(t) == 1

\* the frame that holds the local names of the call of thread t
Frame(t) == t

\* variant: the secret of a call replaces that of the instance
SecretAfterCall_sticky(self, secret) == EffectiveSecret(self, secret)

\* self._secret after a call: no statement assigns it
SecretAfterCall(self, secret) == self

\* a delivery; a delivery with a body that is not JSON, under another
\* secret and with the window disabled; the first one with the secret of
\* the instance passed as an override
ConcurrentRequests ==
  LET ts == << "str", NatToStr(DeliveryTime) >>
      object == PyStr(PayloadText[UntypedEvent])
      truncated == PyStr(Str(<< "{", "\"", "a", "\"", ":" >>))
  IN { Request(WHSEC_TEST, object, "signed", "same", ts, PyNone, PyNone),
       Request(WHSEC_TEST, truncated, "signed", "same", ts,
               PyStr(OTHER_SECRET), PyInt(-1)),
       Request(WHSEC_TEST, object, "signed", "same", ts, PyStr(WHSEC_TEST),
               PyNone) }

\* clock readings after the first one, which is outside every window: the
\* delivery time
ConcurrentClock == {DeliveryTime}

\* what the caller of op gets for the outcome r of its last statement
Returns(op, r) ==
  IF op # "verify" THEN r
  ELSE IF r.exc = "none" THEN Ok(TRUE)
  ELSE IF r.exc = "WebhookVerificationError" THEN Ok(FALSE)
  ELSE r

\* the call of thread t ends with outcome r
Finished(t, r) ==
  [threads EXCEPT ![t].pc = "done",
                  ![t].result = Returns(threads[t].op, r)]

\* the call of thread t goes on at statement p
Goto(t, p) == [threads EXCEPT ![t].pc = p]

TickConcurrent ==
  /\ \E t \in ConcurrentClock : t > clock /\ clock' = t
  /\ UNCHANGED << self_secret, pc, call, result, threads, locals, replayed >>

\* thread t calls verify or construct_event
Begin(t) ==
  /\ threads[t].pc = "idle"
  /\ \E op \in {"verify", "construct_event"}, r \in ConcurrentRequests :
       threads' = [threads EXCEPT ![t] =
                     [IdleThread EXCEPT !.pc = "headers", !.op = op,
                        !.body = r.body, !.headers = r.headers,
                        !.secret = r.secret, !.tolerance = r.tolerance]]
  /\ UNCHANGED << self_secret, clock, pc, call, result, locals, replayed >>

\* lines 222-224: the secret and the two headers
ReadHeaders(t) ==
  /\ threads[t].pc = "headers"
  /\ locals' = [locals EXCEPT ![Frame(t)] =
        [@ EXCEPT
           !.webhook_secret = EffectiveSecret(self_secret, threads[t].secret),
           !.signature = _get_header(threads[t].headers,
                                     WEBHOOK_SIGNATURE_HEADER),
           !.timestamp = _get_header(threads[t].headers,
                                     WEBHOOK_TIMESTAMP_HEADER)]]
  /\ threads' = Goto(t, "check")
  /\ self_secret' = SecretAfterCall(self_secret, threads[t].secret)
  /\ UNCHANGED << clock, pc, call, result, replayed >>

\* lines 226-250: both headers present, the prefix, int(timestamp)
CheckHeaders(t) ==
  /\ threads[t].pc = "check"
  /\ LET l == locals[Frame(t)]
         failure ==
           IF ~Truthy(l.signature)
             THEN WebhookVerificationError("MISSING_SIGNATURE")
           ELSE IF ~Truthy(l.timestamp)
             THEN WebhookVerificationError("MISSING_TIMESTAMP")
           ELSE IF l.signature.tag # "str" THEN Raise("AttributeError")
           ELSE IF ~HasSignaturePrefix(l.signature.s)
             THEN WebhookVerificationError("INVALID_SIGNATURE_FORMAT")
           ELSE IF ~PyInt_(l.timestamp).ok
             THEN WebhookVerificationError("INVALID_TIMESTAMP")
           ELSE Ok(<< >>)
     IN IF failure.exc # "none"
          THEN threads' = Finished(t, failure) /\ UNCHANGED locals
          ELSE /\ threads' = Goto(t, "clock")
               /\ locals' = [locals EXCEPT ![Frame(t)].timestamp_num =
                               PyInt_(l.timestamp).val]
  /\ UNCHANGED << self_secret, clock, pc, call, result, replayed >>

\* lines 252-259: the tolerance, the clock and the window
ReadClock(t) ==
  /\ threads[t].pc = "clock"
  /\ locals' = [locals EXCEPT ![Frame(t)].now = clock]
  /\ LET read == [threads EXCEPT ![t].now = clock]
     IN IF TimestampOutOfRange(EffectiveTolerance(threads[t].tolerance),
                               clock, locals[Frame(t)].timestamp_num)
          THEN threads' =
                 [read EXCEPT ![t].pc = "done",
                    ![t].result =
                      Returns(threads[t].op,
                              WebhookVerificationError("TIMESTAMP_OUT_OF_RANGE"))]
          ELSE threads' = [read EXCEPT ![t].pc = "decode"]
  /\ UNCHANGED << self_secret, clock, pc, call, result, replayed >>

\* line 261: body_string = _to_string(body)
Decode(t) ==
  /\ threads[t].pc = "decode"
  /\ LET d == _to_string(threads[t].body)
     IN IF d.exc # "none"
          THEN threads' = Finished(t, d) /\ UNCHANGED locals
          ELSE /\ threads' = Goto(t, "hmac")
               /\ locals' = [locals EXCEPT ![Frame(t)].body_string = d.val]
  /\ UNCHANGED << self_secret, clock, pc, call, result, replayed >>

\* line 262: expected = _compute_signature(...)
Hmac(t) ==
  /\ threads[t].pc = "hmac"
  /\ LET l == locals[Frame(t)]
         e == _compute_signature(l.webhook_secret, l.timestamp, l.body_string)
     IN IF e.exc # "none"
          THEN threads' = Finished(t, e) /\ UNCHANGED locals
          ELSE /\ threads' = Goto(t, "compare")
               /\ locals' = [locals EXCEPT ![Frame(t)].expected = e.val]
  /\ UNCHANGED << self_secret, clock, pc, call, result, replayed >>

\* lines 264-268: _safe_compare(expected, signature); verify returns here
Compare(t) ==
  /\ threads[t].pc = "compare"
  /\ LET l == locals[Frame(t)]
         eq == IF l.signature.tag = "str"
                 THEN _safe_compare(l.expected, l.signature.s)
                 ELSE Raise("AttributeError")
     IN threads' =
          IF eq.exc # "none" THEN Finished(t, eq)
          ELSE IF ~eq.val
            THEN Finished(t, WebhookVerificationError("SIGNATURE_MISMATCH"))
          ELSE IF threads[t].op = "verify" THEN Finished(t, Ok(<< >>))
          ELSE Goto(t, "parse")
  /\ UNCHANGED << self_secret, clock, pc, call, result, locals, replayed >>

\* lines 204-211 of construct_event: json.loads(_to_string(body))
Parse(t) ==
  /\ threads[t].pc = "parse"
  /\ LET d == _to_string(threads[t].body)
         j == JsonLoads(d.val)
     IN /\ threads' =
             IF d.exc # "none" THEN Finished(t, d)
             ELSE IF j.ok THEN Finished(t, Ok(j.val))
             ELSE Finished(t, WebhookVerificationError("INVALID_JSON"))
        /\ locals' = [locals EXCEPT ![Frame(t)].body_string = d.val]
  /\ UNCHANGED << self_secret, clock, pc, call, result, replayed >>

\* the caller of thread t has handled the outcome; the frame is gone
Return(t) ==
  /\ threads[t].pc = "done"
  /\ threads' = [threads EXCEPT ![t] = IdleThread]
  /\ locals' = [locals EXCEPT ![Frame(t)] = NoLocals]
  /\ UNCHANGED << self_secret, clock, pc, call, result, replayed >>

NextConcurrent ==
  \/ TickConcurrent
  \/ \E t \in Threads : Begin(t)
  \/ \E t \in Threads : ReadHeaders(t)
  \/ \E t \in Threads : CheckHeaders(t)
  \/ \E t \in Threads : ReadClock(t)
  \/ \E t \in Threads : Decode(t)
  \/ \E t \in Threads : Hmac(t)
  \/ \E t \in Threads : Compare(t)
  \/ \E t \in Threads : Parse(t)
  \/ \E t \in Threads : Return(t)

Concurrent == Init /\ [][NextConcurrent]_vars

-----------------------------------------------------------------------------
(* Replay: one delivery presented to the instance again and again, as the  *)
(* clock advances                                                          *)

\* variant: the clock is read by the first call and the reading is kept
Now_memoized(reading, first) == first

\* line 253: now = int(time.time() * 1000), in every call
Now(reading, first) == reading

\* variant: the lookup takes the entries out of the mapping
HeadersAfterCall_consumed(headers) == [headers EXCEPT !.entries = << >>]

\* the caller's mapping after a call: _get_header reads it with get, items
\* and value[0]
HeadersAfterCall(headers) == headers

\* the caller's body after a call: _to_string returns a str as it is,
\* decodes bytes into a new str and rejects anything else
BodyAfterCall(body) == body

\* tolerance arguments of a replayed delivery: omitted, zero, positive and
\* disabled
ReplayTolerances == {PyNone, PyInt(0), PyInt(MaxTolerance), PyInt(-1)}

\* secret arguments of the calls that present it
ReplaySecrets == {PyNone, PyStr(OTHER_SECRET)}

\* deliveries stamped with DeliveryTime and signed with the secret of the
\* instance: with the signature as computed or altered, the body a str or
\* a bytearray; and with the signature header stored as a list
ReplayRequests ==
  {Request(WHSEC_TEST, body, kind, "same",
           << "str", NatToStr(DeliveryTime) >>, PyNone, tolerance) :
     body \in {PyStr(PayloadText[UntypedEvent]),
               PyByteArray(PayloadText[UntypedEvent])},
     kind \in {"signed", "flip-last"},
     tolerance \in ReplayTolerances}
    \cup {VariantRequest(WHSEC_TEST, PayloadText[UntypedEvent],
                         NatToStr(DeliveryTime), "sent", "canonical",
                         << "list", "str" >>)}

\* the outcome of op
Apply(op, self, body, headers, secret, tolerance, now) ==
  IF op = "verify" THEN verify(self, body, headers, secret, tolerance, now)
  ELSE construct_event(self, body, headers, secret, tolerance, now)

\* verify returned true, or construct_event returned an event
Accepts(op, out) ==
  out.exc = "none" /\ (op = "verify" => out.val = TRUE)

\* a call of op that presents body and headers under tolerance, the first
\* one of the delivery when first = 0
Present(op, body, headers, secret, tolerance, first) ==
  /\ call' = [op |-> op, body |-> body, headers |-> headers,
               secret |-> secret, tolerance |-> tolerance, now |-> clock]
  /\ result' = Apply(op, self_secret, body, headers, secret, tolerance,
                     Now(clock, IF first = 0 THEN clock ELSE first))
  /\ self_secret' = SecretAfterCall(self_secret, secret)
  /\ replayed' =
       [body |-> BodyAfterCall(body),
        headers |-> HeadersAfterCall(headers),
        tolerance |-> tolerance,
        first |-> IF first = 0 THEN clock ELSE first,
        latest |-> IF clock > replayed.latest THEN clock
                   ELSE replayed.latest,
        accepted_at |-> IF Accepts(op, result') THEN clock
                        ELSE replayed.accepted_at,
        overridden |-> replayed.overridden \/ secret.tag # "None"]
  /\ pc' = "returned"
  /\ UNCHANGED << clock, threads, locals >>

\* a delivery arrives and is presented for the first time
Deliver ==
  /\ pc = "idle"
  /\ replayed.first = 0
  /\ \E op \in {"verify", "construct_event"}, r \in ReplayRequests,
        secret \in ReplaySecrets :
       Present(op, r.body, r.headers, secret, r.tolerance, 0)

\* the same body and headers are presented again, now or later
Redeliver ==
  /\ pc = "idle"
  /\ replayed.first # 0
  /\ \E op \in {"verify", "construct_event"}, secret \in ReplaySecrets :
       Present(op, replayed.body, replayed.headers, secret,
               replayed.tolerance, replayed.first)

NextReplay ==
  \/ Tick
  \/ Deliver
  \/ Redeliver
  \/ Done

Replay == Init /\ [][NextReplay]_vars

-----------------------------------------------------------------------------
(* The request of the call that returned, as its sender and the            *)
(* specification describe it                                               *)

\* two header names are equal ignoring case
SameName(a, b) ==
  /\ Len(a) = Len(b)
  /\ \A i \in 1..Len(a) :
       \/ a[i] = b[i]
       \/ a[i] >= 65 /\ a[i] <= 90 /\ b[i] = a[i] + 32
       \/ b[i] >= 65 /\ b[i] <= 90 /\ a[i] = b[i] + 32

\* the values stored under a key that equals name ignoring case
Stored(name) ==
  IF call.headers.tag = "None" THEN {}
  ELSE LET es == call.headers.entries
       IN {es[i].value : i \in {j \in 1..Len(es) : SameName(es[j].key, name)}}

\* the request has the header
HasHeader(name) == Stored(name) # {}

\* a stored value that gives the header a text: a string, or a list that
\* starts with a string
IsText(v) ==
  \/ v.tag = "str"
  \/ v.tag = "list" /\ Len(v.items) > 0 /\ v.items[1].tag = "str"
Text(v) == IF v.tag = "str" THEN v.s ELSE v.items[1].s

\* the request has the header, with a text
HasText(name) == \E v \in Stored(name) : IsText(v)
TextOf(name) == Text(CHOOSE v \in Stored(name) : IsText(v))

SignatureText == TextOf(WEBHOOK_SIGNATURE_HEADER)
TimestampText == TextOf(WEBHOOK_TIMESTAMP_HEADER)
HasBoth ==
  HasText(WEBHOOK_SIGNATURE_HEADER) /\ HasText(WEBHOOK_TIMESTAMP_HEADER)

\* the timestamp header as an integer
TimestampInt == IntOfStr(TimestampText)

\* the body as text
BodyIsText ==
  \/ call.body.tag = "str"
  \/ call.body.tag = "bytes" /\ Utf8Decode(call.body.s).exc = "none"
BodyText ==
  IF call.body.tag = "str" THEN call.body.s ELSE Utf8Decode(call.body.s).val

\* the secret and the tolerance in effect for the call
ReceiverSecret ==
  IF call.secret.tag = "None" THEN self_secret ELSE call.secret.s
Tolerance ==
  IF call.tolerance.tag = "None" THEN 300000 ELSE call.tolerance.n

\* |now_ms - timestamp|
Drift == Abs(call.now - TimestampInt.val)

\* "v1=" + hex(HMAC-SHA256(secret, timestamp + "." + body))
Expected == _sign(ReceiverSecret, TimestampText, BodyText)

\* the signature header is the signature of this timestamp and body under
\* the secret in effect
CorrectlySigned ==
  /\ HasBoth
  /\ BodyIsText
  /\ Expected.exc = "none"
  /\ SignatureText = Expected.val

\* a correctly signed delivery with an integer timestamp
ValidDelivery == CorrectlySigned /\ TimestampInt.ok

Returned(op) == pc = "returned" /\ call.op = op

ReturnedTrue == Returned("verify") /\ result.exc = "none" /\ result.val = TRUE
ReturnedFalse == Returned("verify") /\ result.exc = "none" /\ result.val = FALSE
ReturnedEvent == Returned("construct_event") /\ result.exc = "none"
RaisedKind(kind) ==
  /\ Returned("construct_event")
  /\ result.exc = "WebhookVerificationError"
  /\ result.code = kind

\* the call accepted the request
Accepted == ReturnedTrue \/ ReturnedEvent

\* strict verification of the request succeeded
Verified == ReturnedTrue \/ ReturnedEvent \/ RaisedKind("INVALID_JSON")

\* the call failed with the given kind: construct_event raises it, verify
\* returns false
FailedWith(kind) == RaisedKind(kind) \/ ReturnedFalse

-----------------------------------------------------------------------------
(* Claims *)

\* C1: verify returns true, and construct_event returns an event, only if
\* the signature and timestamp headers are both present, the timestamp
\* parses as an integer, the tolerance is negative or
\* |now_ms - timestamp| <= tolerance, the body decodes as text, and the
\* received signature equals "v1=" + hex(HMAC-SHA256(effective secret,
\* "<timestamp>.<body>")).
NeverFailOpen ==
  (pc = "returned" /\ Accepted) =>
    /\ HasBoth
    /\ TimestampInt.ok
    /\ (Tolerance < 0 \/ Drift <= Tolerance)
    /\ BodyIsText
    /\ Expected.exc = "none"
    /\ SignatureText = Expected.val

\* verify returned true for a request under the default tolerance
NeverFailOpenWitness ==
  /\ ReturnedTrue
  /\ call.tolerance.tag = "None"
  /\ call.secret.tag = "None"

\* C2: verify never raises: it returns a boolean for every body, header
\* mapping, secret override and tolerance.
VerifyNeverRaises ==
  Returned("verify") => (result.exc = "none" /\ result.val \in BOOLEAN)

\* C3: if the signature header is "v1=" + hex(HMAC-SHA256(secret,
\* timestamp + "." + body)) for a timestamp string that parses as an
\* integer and a text body, and the clock is within the effective tolerance
\* or the tolerance is negative, then verify with that secret returns true.
SignVerifyRoundTrip ==
  ( /\ Returned("verify")
    /\ call.body.tag = "str"
    /\ ValidDelivery
    /\ (Tolerance < 0 \/ Drift <= Tolerance) )
  => ReturnedTrue

\* verify returned true for a timestamp written with a leading zero, under
\* a secret given with the call
SignVerifyRoundTripWitness ==
  /\ ReturnedTrue
  /\ call.secret.tag = "str"
  /\ HasBoth
  /\ TimestampText # IntToStr(TimestampInt.val)

\* C4: for every effective tolerance T >= 0 (the override, else 300000) and
\* a correctly signed delivery, before or after the clock:
\* |now_ms - timestamp| = T passes the tolerance check, and
\* |now_ms - timestamp| = T + 1 fails with TIMESTAMP_OUT_OF_RANGE; an
\* override of 0 is a tolerance of 0.
ToleranceBoundary ==
  (pc = "returned" /\ Tolerance >= 0 /\ ValidDelivery) =>
    /\ (Drift = Tolerance => Verified)
    /\ (Drift = Tolerance + 1 => FailedWith("TIMESTAMP_OUT_OF_RANGE"))

\* an override of 0 and a timestamp one millisecond ahead of the clock:
\* TIMESTAMP_OUT_OF_RANGE
ToleranceBoundaryWitness ==
  /\ RaisedKind("TIMESTAMP_OUT_OF_RANGE")
  /\ call.tolerance = PyInt(0)
  /\ ValidDelivery
  /\ TimestampInt.val = call.now + 1

\* the kind of failure the checks other than the tolerance window report
\* for a request whose headers are strings: "none" when all of them pass
OtherCheck ==
  IF ~HasHeader(WEBHOOK_SIGNATURE_HEADER) \/ SignatureText = << >>
    THEN "MISSING_SIGNATURE"
  ELSE IF ~HasHeader(WEBHOOK_TIMESTAMP_HEADER) \/ TimestampText = << >>
    THEN "MISSING_TIMESTAMP"
  ELSE IF ~StartsWith(SignatureText, V1)
    THEN "INVALID_SIGNATURE_FORMAT"
  ELSE IF ~TimestampInt.ok THEN "INVALID_TIMESTAMP"
  ELSE IF ~BodyIsText THEN "INVALID_BODY"
  ELSE IF SignatureText # Expected.val THEN "SIGNATURE_MISMATCH"
  ELSE "none"

\* the request is made of strings that have a UTF-8 encoding
WellFormed ==
  /\ \A name \in {WEBHOOK_SIGNATURE_HEADER, WEBHOOK_TIMESTAMP_HEADER} :
       \A v \in Stored(name) :
         v.tag = "str" /\ \A i \in 1..Len(v.s) : ~IsSurrogate(v.s[i])
  /\ BodyIsText => \A i \in 1..Len(BodyText) : ~IsSurrogate(BodyText[i])

\* C5: when the effective tolerance is negative, verification never fails
\* with TIMESTAMP_OUT_OF_RANGE, a correctly signed delivery of any age is
\* accepted, and the checks of the headers, the prefix, the integer
\* timestamp, the body decoding and the signature match still apply.
NegativeToleranceDisablesWindow ==
  (pc = "returned" /\ Tolerance < 0) =>
    /\ ~RaisedKind("TIMESTAMP_OUT_OF_RANGE")
    /\ (ValidDelivery => Verified)
    /\ (Verified => ValidDelivery)
    /\ (WellFormed /\ OtherCheck # "none" => FailedWith(OtherCheck))

\* a delivery older than the default tolerance is accepted under
\* tolerance -1
NegativeToleranceDisablesWindowWitness ==
  /\ ReturnedTrue
  /\ call.tolerance = PyInt(-1)
  /\ Drift > 300000

\* C6: with both headers present, the prefix v1=, an integer timestamp
\* within tolerance and a decodable body, a received signature that
\* differs from the recomputed one in any position or in length is
\* rejected: strict verification fails with SIGNATURE_MISMATCH and verify
\* returns false.
MismatchRejected ==
  ( /\ pc = "returned"
    /\ HasBoth
    /\ StartsWith(SignatureText, V1)
    /\ TimestampInt.ok
    /\ (Tolerance < 0 \/ Drift <= Tolerance)
    /\ BodyIsText
    /\ Expected.exc = "none"
    /\ SignatureText # Expected.val )
  => FailedWith("SIGNATURE_MISMATCH")

\* C7 as stated: a non-empty signature header value that does not start
\* with v1=, with the timestamp header present, fails with
\* INVALID_SIGNATURE_FORMAT.
UnprefixedSignatureRejected ==
  ( /\ pc = "returned"
    /\ HasBoth
    /\ SignatureText # << >>
    /\ ~StartsWith(SignatureText, V1) )
  => FailedWith("INVALID_SIGNATURE_FORMAT")

\* C7, amended: a non-empty signature header value that does not start
\* with v1=, with a non-empty timestamp header value, fails with
\* INVALID_SIGNATURE_FORMAT: it is neither accepted nor reported as
\* SIGNATURE_MISMATCH, even when it is the hex digest that would match.
UnprefixedSignatureRejectedNonEmpty ==
  ( /\ pc = "returned"
    /\ HasBoth
    /\ SignatureText # << >>
    /\ ~StartsWith(SignatureText, V1)
    /\ TimestampText # << >> )
  => FailedWith("INVALID_SIGNATURE_FORMAT")

\* the signature header is the matching hex digest without the prefix:
\* INVALID_SIGNATURE_FORMAT
UnprefixedSignatureRejectedWitness ==
  /\ RaisedKind("INVALID_SIGNATURE_FORMAT")
  /\ HasBoth
  /\ BodyIsText
  /\ Expected.exc = "none"
  /\ V1 \o SignatureText = Expected.val
  /\ TimestampInt.ok
  /\ Drift <= Tolerance

NonObjectIsInvalidJson ==
  /\ ( /\ Returned("construct_event")
       /\ BodyIsText
       /\ BodyText \in NonObjectTexts
       /\ ValidDelivery
       /\ (Tolerance < 0 \/ Drift <= Tolerance) )
     => RaisedKind("INVALID_JSON")
  /\ ReturnedEvent => result.val[1] = "dict"

\* C10: for every JSON object payload, with or without a known type, whose
\* serialization is the body of a correctly signed delivery within
\* tolerance, construct_event returns the payload: the value has the
\* payload's type and nested data fields.
EventIsPayload ==
  \A p \in Payloads :
    ( /\ Returned("construct_event")
      /\ BodyIsText
      /\ BodyText = PayloadText[p]
      /\ ValidDelivery
      /\ (Tolerance < 0 \/ Drift <= Tolerance) )
    => /\ ReturnedEvent
       /\ result.val = p
       /\ p = BouncedEvent =>
            /\ result.val[2][TYPE] = JStr(EMAIL_BOUNCED)
            /\ result.val[2][DATA][2][BOUNCE][2][TYPE] = JStr(PERMANENT)

\* construct_event returned an event of a type the SDK does not know
EventIsPayloadWitness ==
  /\ ReturnedEvent
  /\ ValidDelivery
  /\ BodyText = PayloadText[UnknownEvent]
  /\ result.val = UnknownEvent

\* the header values are strings or sequences of strings, the values of a
\* header mapping
HeadersOfStrings ==
  \A name \in {WEBHOOK_SIGNATURE_HEADER, WEBHOOK_TIMESTAMP_HEADER} :
    \A v \in Stored(name) :
      \/ v.tag \in {"str", "None"}
      \/ /\ v.tag \in {"list", "tuple"}
         /\ \A i \in 1..Len(v.items) : v.items[i].tag = "str"

\* the body is a byte string that is not UTF-8
BodyIsNotUtf8 ==
  call.body.tag = "bytes" /\ Utf8Decode(call.body.s).exc # "none"

\* C11: for a byte body that is not valid UTF-8, in a request whose header
\* values are strings or sequences of strings, verify returns false; and
\* when both headers are present, the signature starts with v1= and the
\* timestamp is an integer within tolerance, construct_event raises
\* INVALID_BODY whatever the signature value is.
NonUtf8BodyRejected ==
  (pc = "returned" /\ BodyIsNotUtf8 /\ HeadersOfStrings) =>
    /\ Returned("verify") => ReturnedFalse
    /\ ( /\ Returned("construct_event")
         /\ HasBoth
         /\ StartsWith(SignatureText, V1)
         /\ TimestampInt.ok
         /\ (Tolerance < 0 \/ Drift <= Tolerance) )
       => RaisedKind("INVALID_BODY")

\* the body 0xFF under a signature that ends in a lone surrogate:
\* INVALID_BODY
NonUtf8BodyRejectedWitness ==
  /\ RaisedKind("INVALID_BODY")
  /\ call.body = PyBytes(<< 255 >>)
  /\ HasBoth
  /\ StartsWith(SignatureText, V1)
  /\ IsSurrogate(SignatureText[Len(SignatureText)])

\* the outcome of the other entry point on the arguments and the clock
\* reading of the call that returned
OtherEntryPoint ==
  IF call.op = "verify"
    THEN construct_event(self_secret, call.body, call.headers, call.secret,
                         call.tolerance, call.now)
    ELSE verify(self_secret, call.body, call.headers, call.secret,
                call.tolerance, call.now)

\* C12: on the same arguments and clock reading, construct_event raises a
\* VerificationError of a kind other than INVALID_JSON exactly when verify
\* returns false, and that error is the one of strict verification;
\* construct_event raises INVALID_JSON only when strict verification
\* succeeds, and verify then returns true.
EntryPointsAgree ==
  pc = "returned" =>
    LET v == IF call.op = "verify" THEN result ELSE OtherEntryPoint
        e == IF call.op = "verify" THEN OtherEntryPoint ELSE result
        strict == _verify_internal(self_secret, call.body, call.headers,
                                   call.secret, call.tolerance, call.now)
        rejected == e.exc = "WebhookVerificationError"
                      /\ e.code # "INVALID_JSON"
    IN /\ rejected <=> v = Ok(FALSE)
       /\ rejected => e = strict
       /\ (e.exc = "WebhookVerificationError" /\ e.code = "INVALID_JSON")
            => (strict = Ok(<< >>) /\ v = Ok(TRUE))
       /\ v = Ok(TRUE) => strict = Ok(<< >>)

\* verify returned true for a correctly signed body that is not JSON
EntryPointsAgreeWitness ==
  /\ ReturnedTrue
  /\ BodyIsText
  /\ BodyText \in MalformedTexts
  /\ OtherEntryPoint = WebhookVerificationError("INVALID_JSON")

\* the mapping with the key of the header replaced by another case of it
Rekeyed(headers, name, case) ==
  IF headers.tag = "None" THEN headers
  ELSE [headers EXCEPT !.entries =
          [i \in 1..Len(@) |->
             IF Lower(@[i].key) = Lower(name)
               THEN [@[i] EXCEPT !.key = HeaderKey(name, case)]
               ELSE @[i]]]

\* the outcome of the entry point that was called, on another mapping
OutcomeWith(headers) ==
  IF call.op = "verify"
    THEN verify(self_secret, call.body, headers, call.secret,
                call.tolerance, call.now)
    ELSE construct_event(self_secret, call.body, headers, call.secret,
                         call.tolerance, call.now)

\* replacing the key of the signature header, or of the timestamp header,
\* by another case of the name leaves the outcome unchanged
CaseInvariant ==
  \A name \in {WEBHOOK_SIGNATURE_HEADER, WEBHOOK_TIMESTAMP_HEADER} :
    \A case \in KeyCases :
      OutcomeWith(Rekeyed(call.headers, name, case)) = result

\* C13 as stated: the outcome does not depend on the case of the header
\* keys, and the lookup yields no value only when no key of the mapping
\* matches the name ignoring case.
CaseInsensitiveLookup ==
  pc = "returned" =>
    /\ \A name \in {WEBHOOK_SIGNATURE_HEADER, WEBHOOK_TIMESTAMP_HEADER} :
         _get_header(call.headers, name) = PyNone => ~HasHeader(name)
    /\ CaseInvariant

\* the value stored for the header is None or an empty list
StoredIsEmpty(name) ==
  \E v \in Stored(name) :
    v.tag = "None" \/ (v.tag = "list" /\ Len(v.items) = 0)

\* C13, amended: the outcome does not depend on the case of the header
\* keys, and the lookup yields no value exactly when no key of the mapping
\* matches the name ignoring case or the matching value is None or an
\* empty list.
CaseInsensitiveLookupOrEmpty ==
  pc = "returned" =>
    /\ \A name \in {WEBHOOK_SIGNATURE_HEADER, WEBHOOK_TIMESTAMP_HEADER} :
         _get_header(call.headers, name) = PyNone
           <=> (~HasHeader(name) \/ StoredIsEmpty(name))
    /\ CaseInvariant

\* a delivery is accepted with both header names in lower case
CaseInsensitiveLookupWitness ==
  /\ Accepted
  /\ \A i \in 1..Len(call.headers.entries) :
       call.headers.entries[i].key
         \in {Lower(WEBHOOK_SIGNATURE_HEADER), Lower(WEBHOOK_TIMESTAMP_HEADER)}
  /\ Len(call.headers.entries) = 2

\* C14: the HMAC is keyed by the secret given with the call when there is
\* one, the empty string included, and by the secret of the instance
\* otherwise: a delivery signed with that key is verified and no other
\* is, and a delivery signed with the secret of the instance fails with
\* SIGNATURE_MISMATCH under a different override.
OverrideKeysHmac ==
  ( /\ pc = "returned"
    /\ HasBoth
    /\ TimestampInt.ok
    /\ (Tolerance < 0 \/ Drift <= Tolerance)
    /\ BodyIsText )
  => LET key == IF call.secret.tag # "None" THEN call.secret.s
                ELSE self_secret
         keyed == _sign(key, TimestampText, BodyText)
         own == _sign(self_secret, TimestampText, BodyText)
     IN /\ (keyed.exc = "none" /\ SignatureText = keyed.val) => Verified
        /\ Verified => SignatureText = keyed.val
        /\ ( /\ call.secret.tag # "None"
             /\ call.secret.s # self_secret
             /\ own.exc = "none"
             /\ SignatureText = own.val )
           => FailedWith("SIGNATURE_MISMATCH")

\* a delivery signed with the secret of the instance, under another
\* override: SIGNATURE_MISMATCH
OverrideKeysHmacWitness ==
  /\ RaisedKind("SIGNATURE_MISMATCH")
  /\ call.secret = PyStr(OTHER_SECRET)
  /\ HasBoth
  /\ BodyIsText
  /\ SignatureText = _sign(self_secret, TimestampText, BodyText).val

\* the outcome of the call of thread t when nothing else runs: the entry
\* point applied to its arguments and its clock reading
Alone(t) ==
  IF threads[t].op = "verify"
    THEN verify(WHSEC_TEST, threads[t].body, threads[t].headers,
                threads[t].secret, threads[t].tolerance, threads[t].now)
    ELSE construct_event(WHSEC_TEST, threads[t].body, threads[t].headers,
                         threads[t].secret, threads[t].tolerance,
                         threads[t].now)

\* the secret in effect for the call of thread t
SecretInEffect(t) ==
  IF threads[t].secret.tag = "None" THEN WHSEC_TEST ELSE threads[t].secret.s

\* C15: two calls of the same entry point with equal body, headers,
\* effective secret and tolerance, made at the same clock reading, have
\* the same outcome, whatever calls were made before on the instance.
SameInputsSameOutcome ==
  \A t, u \in Threads :
    ( /\ threads[t].pc = "done" /\ threads[u].pc = "done"
      /\ threads[t].op = threads[u].op
      /\ threads[t].body = threads[u].body
      /\ threads[t].headers = threads[u].headers
      /\ SecretInEffect(t) = SecretInEffect(u)
      /\ threads[t].tolerance = threads[u].tolerance
      /\ threads[t].now = threads[u].now )
    => threads[t].result = threads[u].result

\* two accepted calls at the same clock reading, one without a secret and
\* one with the secret of the instance passed as an override
SameInputsSameOutcomeWitness ==
  \E t, u \in Threads :
    /\ threads[t].pc = "done" /\ threads[u].pc = "done"
    /\ threads[t].op = threads[u].op
    /\ threads[t].secret = PyNone
    /\ threads[u].secret = PyStr(WHSEC_TEST)
    /\ threads[t].now = threads[u].now
    /\ threads[t].result.exc = "none"
    /\ threads[u].result = threads[t].result

\* C16: when the calls of several threads are interleaved at any
\* statement, the outcome of each call is the one it has when it runs
\* alone on its arguments and its clock reading.
InterleavedAsAlone ==
  \A t \in Threads : threads[t].pc = "done" => threads[t].result = Alone(t)

\* a call that read the clock later has returned true while a call that
\* read it earlier, under another secret, is still at the comparison
InterleavedAsAloneWitness ==
  \E t, u \in Threads :
    /\ threads[t].pc = "done"
    /\ threads[t].op = "verify"
    /\ threads[t].result = Ok(TRUE)
    /\ threads[u].pc = "compare"
    /\ threads[u].secret = PyStr(OTHER_SECRET)
    /\ threads[u].now < threads[t].now

\* the header values are strings or lists that start with a string, when
\* there are any
HeadersAsText ==
  \A name \in {WEBHOOK_SIGNATURE_HEADER, WEBHOOK_TIMESTAMP_HEADER} :
    \A v \in Stored(name) :
      IsText(v) \/ v.tag = "None" \/ (v.tag = "list" /\ Len(v.items) = 0)

\* the header gives no value: it is absent, None, an empty list or an
\* empty string
MissingValue(name) ==
  \/ ~HasHeader(name)
  \/ StoredIsEmpty(name)
  \/ PyStr(<< >>) \in Stored(name)

\* the error kinds of strict verification, in the order of its checks
FailureKinds ==
  << "MISSING_SIGNATURE", "MISSING_TIMESTAMP", "INVALID_SIGNATURE_FORMAT",
     "INVALID_TIMESTAMP", "TIMESTAMP_OUT_OF_RANGE", "INVALID_BODY",
     "SIGNATURE_MISMATCH" >>

\* the request does not pass the k-th check, taken by itself
Fails(k) ==
  CASE k = 1 -> MissingValue(WEBHOOK_SIGNATURE_HEADER)
    [] k = 2 -> MissingValue(WEBHOOK_TIMESTAMP_HEADER)
    [] k = 3 -> ~(HasText(WEBHOOK_SIGNATURE_HEADER)
                    /\ StartsWith(SignatureText, V1))
    [] k = 4 -> ~(HasText(WEBHOOK_TIMESTAMP_HEADER) /\ TimestampInt.ok)
    [] k = 5 -> /\ HasText(WEBHOOK_TIMESTAMP_HEADER)
                /\ TimestampInt.ok
                /\ Tolerance >= 0
                /\ Drift > Tolerance
    [] k = 6 -> ~BodyIsText
    [] k = 7 -> ~(HasBoth /\ BodyIsText /\ Expected.exc = "none"
                    /\ SignatureText = Expected.val)

Failing == {k \in 1..7 : Fails(k)}

RECURSIVE FirstFailingFrom(_)
FirstFailingFrom(k) ==
  IF k > 7 THEN 0 ELSE IF Fails(k) THEN k ELSE FirstFailingFrom(k + 1)

\* the first check the request does not pass; 0 when it passes them all
FirstFailing == FirstFailingFrom(1)

\* C17: strict verification reports the first check that fails, in the
\* order signature header, timestamp header, prefix, integer timestamp,
\* tolerance window, body decoding, signature match: a request that fails
\* a check before the signature match fails with the kind of the first
\* one it fails, no call reports a later kind or accepts the request, and
\* construct_event raises INVALID_JSON only when every check passes.
FixedCheckOrder ==
  (pc = "returned" /\ HeadersAsText) =>
    LET first == FirstFailing
    IN first # 0 =>
         /\ ~Verified
         /\ first < 7 => FailedWith(FailureKinds[first])
         /\ (Returned("construct_event")
               /\ result.exc = "WebhookVerificationError")
              => result.code = FailureKinds[first]

\* a stale timestamp, an undecodable body and a signature that does not
\* match: TIMESTAMP_OUT_OF_RANGE
FixedCheckOrderWitness ==
  /\ RaisedKind("TIMESTAMP_OUT_OF_RANGE")
  /\ BodyIsNotUtf8
  /\ Failing = {5, 6, 7}

Revalued(headers, name, value) ==
  [headers EXCEPT !.entries =
     [i \in 1..Len(@) |->
        IF Lower(@[i].key) = Lower(name)
          THEN [@[i] EXCEPT !.value = value] ELSE @[i]]]

\* C19: when the value stored for the signature or timestamp header is a
\* list or a tuple of strings, the outcome is the one of the request with
\* the first element stored as a single string, and the missing-header
\* kind of that header results when the sequence is empty.
SequenceValueIsFirstElement ==
  pc = "returned" =>
    \A k \in 1..2 :
      LET name == IF k = 1 THEN WEBHOOK_SIGNATURE_HEADER
                  ELSE WEBHOOK_TIMESTAMP_HEADER
      IN \A v \in Stored(name) :
           ( /\ v.tag \in {"list", "tuple"}
             /\ \A i \in 1..Len(v.items) : v.items[i].tag = "str" )
           => IF Len(v.items) = 0
                THEN \/ FailedWith(FailureKinds[k])
                     \/ k = 2 /\ FailedWith(FailureKinds[1])
                ELSE OutcomeWith(Revalued(call.headers, name, v.items[1]))
                       = result

\* C20: the signature is computed over the timestamp header as it is
\* written and the body as it is received: the signature over another
\* text of the same integer, or over the body with or without a trailing
\* space, is another signature and fails with SIGNATURE_MISMATCH, and the
\* signature over the received texts is verified.
ExactTextsSigned ==
  ( /\ pc = "returned"
    /\ HasBoth
    /\ TimestampInt.ok
    /\ (Tolerance < 0 \/ Drift <= Tolerance)
    /\ BodyIsText
    /\ BodyText # << >>
    /\ Expected.exc = "none" )
  => LET other_timestamp ==
           _sign(ReceiverSecret, AltTimestamp(TimestampText), BodyText).val
         other_body ==
           _sign(ReceiverSecret, TimestampText, AltBody(BodyText)).val
     IN /\ IntOfStr(AltTimestamp(TimestampText)) = TimestampInt
        /\ other_timestamp # Expected.val
        /\ other_body # Expected.val
        /\ SignatureText \in {other_timestamp, other_body}
             => FailedWith("SIGNATURE_MISMATCH")
        /\ SignatureText = Expected.val => Verified

\* the timestamp header has a leading zero and the signature is the one
\* over the timestamp without it: SIGNATURE_MISMATCH
ExactTextsSignedWitness ==
  /\ RaisedKind("SIGNATURE_MISMATCH")
  /\ HasBoth
  /\ BodyIsText
  /\ TimestampText = << 48 >> \o NatToStr(DeliveryTime)
  /\ SignatureText
       = _sign(ReceiverSecret, NatToStr(DeliveryTime), BodyText).val

-----------------------------------------------------------------------------
(* A delivery presented again *)

\* a call that presents the replayed delivery has returned
Presented == pc = "returned" /\ replayed.first # 0

\* the call presents a timestamp and a non-negative tolerance
HasWindow == HasBoth /\ TimestampInt.ok /\ Tolerance >= 0

\* the last reading of the window of the delivery
WindowEnd == TimestampInt.val + Tolerance

\* C21: with a non-decreasing clock and a fixed non-negative effective
\* tolerance T, a delivery with timestamp ts is accepted only at clock
\* readings in [ts - T, ts + T]; once a call of the delivery has observed
\* now_ms > ts + T, that call and every later call that presents the same
\* headers and body fails with TIMESTAMP_OUT_OF_RANGE (verify returns
\* false), whether or not the signature is valid and whether or not an
\* earlier call accepted the delivery.
StaleStaysRejected ==
  (Presented /\ HasWindow) =>
    /\ Accepted =>
         /\ call.now >= TimestampInt.val - Tolerance
         /\ call.now <= WindowEnd
    /\ replayed.latest > WindowEnd => FailedWith("TIMESTAMP_OUT_OF_RANGE")

\* a correctly signed delivery that an earlier call accepted is presented
\* after its window and fails
StaleStaysRejectedWitness ==
  /\ Presented
  /\ HasWindow
  /\ CorrectlySigned
  /\ replayed.accepted_at # 0
  /\ replayed.accepted_at < call.now
  /\ call.now > WindowEnd
  /\ FailedWith("TIMESTAMP_OUT_OF_RANGE")

\* the outcome of the call under the secret given at construction
OutcomeUnderConfigured ==
  Apply(call.op, WHSEC_TEST, call.body, call.headers, PyNone,
        call.tolerance, call.now)

\* C22: every verify and construct_event call, successful or failing, with
\* or without a secret override or tolerance, leaves the secret of the
\* instance as given at construction and leaves the caller's header mapping
\* and body as they were passed; a call without override that follows a
\* call with an override has the outcome of verification against the
\* secret given at construction.
CallsLeaveNoTrace ==
  /\ self_secret = WHSEC_TEST
  /\ Presented =>
       /\ replayed.body = call.body
       /\ replayed.headers = call.headers
       /\ (replayed.overridden /\ call.secret.tag = "None") =>
            result = OutcomeUnderConfigured

\* after a call with an override, a call without one accepts the delivery
\* signed with the secret given at construction, its signature header
\* stored as a list
CallsLeaveNoTraceWitness ==
  /\ Presented
  /\ replayed.overridden
  /\ call.secret.tag = "None"
  /\ \E v \in Stored(WEBHOOK_SIGNATURE_HEADER) : v.tag = "list"
  /\ CorrectlySigned
  /\ Accepted

=============================================================================
